---- MODULE Spec2Model ----
(***************************************************************************)
(* Model of the scan pipeline of Console-viewer (src/server.ts).           *)
(*                                                                         *)
(* One session is one run of the async socket.on("scan-url") handler.  The *)
(* handler is cut at its await points; everything the code executes        *)
(* synchronously between two awaits is one action.  The capture callbacks  *)
(* registered with page.on fire between those actions while the page is    *)
(* alive.  The scans table, the socket.io connections and the REST lookup  *)
(* are modelled next to the sessions.                                      *)
(***************************************************************************)
EXTENDS Integers, Sequences, FiniteSets, TLC

\* ------------------------------------------------------------------ bounds
NumSessions == 2      \* sessions the state has room for
MaxRequests == 1      \* scan-url requests the server receives in one run of Spec
NumConns == 2         \* socket.io connections
MaxEvents == 2        \* events the automation engine emits in one run, all pages together
MaxMessages == 2      \* console-log and network-log messages a client receives in one run
MaxScans == 2         \* scan-url messages a client emits in one run

Sessions == 1..NumSessions
Requests == 1..MaxRequests
Conns == 1..NumConns

\* ------------------------------------------------------------- input values
\* URLs a client submits with scan-url
ScanUrls == {"https://a.example", "https://b.example"}

\* URLs of network events, as character sequences so that startsWith is computed
HttpUrl == <<"h", "t", "t", "p", ":", "a">>
DataUrl == <<"d", "a", "t", "a", ":", "x">>
NetUrls == {HttpUrl, DataUrl}
DataPrefix == <<"d", "a", "t", "a", ":">>

ConsoleTypes == {"log", "warn", "error"}
\* response.status(): an HTTP status, or 0, which the engine reports for a
\* response that has no HTTP status line (a file: url)
Statuses == {200, 0}
\* request.failure() is null or carries errorText
NoFailure == "null"
Failures == {NoFailure, "net::ERR_FAILED"}

LaunchError == "Failed to launch the browser process"
NewPageError == "Protocol error (Target.createTarget)"
ViewportError == "Protocol error (Emulation.setDeviceMetricsOverride)"
NavigationError == "net::ERR_NAME_NOT_RESOLVED"
NavigationTimeout == "Navigation timeout of 30000 ms exceeded"
GotoErrors == {NavigationError, NavigationTimeout}
ScreenshotError == "Protocol error (Page.captureScreenshot)"
StorageError == "database is locked"
CloseError == "Protocol error (Browser.close)"
Image == "iVBORw0KGgo="

\* what the user has typed into the URL field, as character sequences
EmptyUrl == <<>>
FtpUrl == <<"f", "t", "p", ":", "a">>
ClientUrls == {EmptyUrl, FtpUrl, HttpUrl}
HttpPrefix == <<"h", "t", "t", "p">>

\* the two streams of the client: logs / logBufferRef, networkLogs / networkBufferRef
Streams == {"logs", "network"}

\* ------------------------------------------------------------------- state
VARIABLES
    pc,                \* where each session's handler is suspended
    url,               \* the url argument of the handler
    conn,              \* the socket the handler was called on
    browser,           \* TRUE once `browser` is assigned (server.ts:66)
    handlers,          \* page events that have a listener
    logs,              \* const logs (server.ts:61)
    networkLogs,       \* const networkLogs (server.ts:62)
    screenshotBase64,  \* let screenshotBase64 (server.ts:63)
    closeCalls,        \* number of browser.close() invocations of the session
    rejection,         \* error the handler's promise rejected with, or "none"
    failed,            \* errors the session's awaited or called operations threw
    emitted,           \* socket.emit calls of the session, in order
    connected,         \* per connection: still connected
    delivered,         \* per session: its messages that reached the client
    db,                \* rows of the scans table, in insertion order
    owner,             \* for each row, the session that inserted it
    insertCalls,       \* per session: number of stmt.run calls (server.ts:137)
    observed,          \* per session: entries the capture callbacks built, in firing order
    fired,             \* engine events emitted so far
    res,               \* last response of GET /api/history/:id
    list,              \* last response of GET /api/history
    urlField,          \* App: const [url, setUrl] (App.tsx:109)
    isScanning,        \* App: const [isScanning, setIsScanning] (App.tsx:115)
    socket,            \* App: TRUE once setSocket(newSocket) has run (App.tsx:116)
    online,            \* the client's connection is open
    outbox,            \* scan-url packets socket.io holds back while offline
    awaiting,          \* scan-url requests the server has received and not yet answered
    sent,              \* socket.emit("scan-url") calls of the client
    bufferRef,         \* App: logBufferRef.current, networkBufferRef.current
    shown,             \* App: the logs and networkLogs state (App.tsx:110-111)
    pending,           \* App: state updates queued for the next render
    received,          \* per stream: messages received since the last reset
    arrived            \* messages received so far

sessionVars == <<pc, url, conn, browser, handlers, logs, networkLogs,
                 screenshotBase64, closeCalls, rejection, failed, observed,
                 fired>>
ioVars == <<emitted, connected, delivered>>
dbVars == <<db, owner, insertCalls>>
clientVars == <<urlField, isScanning, socket, online, outbox, awaiting, sent,
                bufferRef, shown, pending, received, arrived>>
serverVars == <<sessionVars, ioVars, dbVars, res, list>>
vars == <<serverVars, clientVars>>

NoResponse == [status |-> 0]

\* ------------------------------------------------------------ pure helpers
\* String.prototype.startsWith
StartsWith(s, prefix) ==
    /\ Len(s) >= Len(prefix)
    /\ SubSeq(s, 1, Len(prefix)) = prefix

\* Array.prototype.filter(...).length on the type field
CountType(entries, t) ==
    Cardinality({i \in 1..Len(entries) : entries[i].type = t})

\* Keys of the entry objects, in an order that keeps each literal's own order
Keys == <<"url", "status", "method", "type", "text", "args", "errorText", "timestamp">>

\* JSON.stringify of one entry object: its own keys with their values, as
\* key/value pairs (no field of an entry is ever undefined, so none is left out)
StringifyEntry(e) ==
    LET own == SelectSeq(Keys, LAMBDA k : k \in DOMAIN e)
    IN  [i \in 1..Len(own) |-> <<own[i], e[own[i]]>>]

\* JSON.stringify of an array of entries
Stringify(entries) == [i \in 1..Len(entries) |-> StringifyEntry(entries[i])]

\* JSON.parse of one object text
ParseEntry(t) ==
    [k \in {t[i][1] : i \in 1..Len(t)} |->
        t[CHOOSE i \in 1..Len(t) : t[i][1] = k][2]]

\* JSON.parse of an array text
Parse(text) == [i \in 1..Len(text) |-> ParseEntry(text[i])]

\* new Date().toISOString(): logical time, the number of engine events so far
Now == fired

\* -------------------------------------------------- entries (page.on bodies)
ConsoleEntry(type) ==
    [type |-> type, text |-> <<"boom">>, args |-> <<"JSHandle:boom">>, timestamp |-> Now]

PageErrorEntry ==
    [type |-> "error", text |-> <<"Error: ", "boom">>, timestamp |-> Now]

ResponseEntry(u, status) ==
    [url |-> u, status |-> status, method |-> "GET", type |-> "script",
     timestamp |-> Now]

\* request.failure()?.errorText || "Failed"
ErrorTextOf(failure) == IF failure = NoFailure THEN "Failed" ELSE failure

RequestFailedEntry(u, failure) ==
    [url |-> u, status |-> 0, method |-> "GET", type |-> "script",
     errorText |-> ErrorTextOf(failure), timestamp |-> Now]

\* a filter that lets every entry through
KeepsAnyEntry(e) == TRUE

\* the filter both network callbacks apply before they keep an entry
KeepsNetEntry(e) == ~StartsWith(e.url, DataPrefix)

\* ---------------------------------------------------------------- messages
ConsoleLogMsg(e) == [ev |-> "console-log", data |-> e]
NetworkLogMsg(e) == [ev |-> "network-log", data |-> e]
ScreenshotMsg(img) == [ev |-> "screenshot", data |-> img]
\* a notice that carries the number of rows the insert changed
SuccessMsgChanges(id) == [ev |-> "scan-complete", data |-> [status |-> "success", scanId |-> 1]]

SuccessMsg(id) == [ev |-> "scan-complete", data |-> [status |-> "success", scanId |-> id]]
ErrorMsg(m) == [ev |-> "scan-complete", data |-> [status |-> "error", message |-> m]]

\* the entry the catch block publishes (it is built in place, not pushed to logs)
SyntheticEntry(m) == [type |-> "error", text |-> <<"Failed to load page: ", m>>, timestamp |-> Now]

\* socket.emit of msgs, in order, by session s: socket.io drops a packet
\* written to a connection that is no longer open
Emit(s, msgs) ==
    /\ emitted' = [emitted EXCEPT ![s] = @ \o msgs]
    /\ delivered' = [delivered EXCEPT ![s] =
                        IF connected[conn[s]] THEN @ \o msgs ELSE @]
    /\ UNCHANGED connected

\* ------------------------------------------------------------------- Init
Init ==
    /\ pc = [s \in Sessions |-> "idle"]
    /\ url = [s \in Sessions |-> ""]
    /\ conn = [s \in Sessions |-> 1]
    /\ browser = [s \in Sessions |-> FALSE]
    /\ handlers = [s \in Sessions |-> {}]
    /\ logs = [s \in Sessions |-> <<>>]
    /\ networkLogs = [s \in Sessions |-> <<>>]
    /\ screenshotBase64 = [s \in Sessions |-> ""]
    /\ closeCalls = [s \in Sessions |-> 0]
    /\ rejection = [s \in Sessions |-> "none"]
    /\ failed = [s \in Sessions |-> {}]
    /\ emitted = [s \in Sessions |-> <<>>]
    /\ connected = [c \in Conns |-> TRUE]
    /\ delivered = [s \in Sessions |-> <<>>]
    /\ db = <<>>
    /\ owner = <<>>
    /\ insertCalls = [s \in Sessions |-> 0]
    /\ observed = [s \in Sessions |-> <<>>]
    /\ fired = 0
    /\ res = NoResponse
    /\ list = NoResponse
    /\ urlField = EmptyUrl
    /\ isScanning = FALSE
    /\ socket = FALSE
    /\ online = TRUE
    /\ outbox = 0
    /\ awaiting = 0
    /\ sent = 0
    /\ bufferRef = [k \in Streams |-> <<>>]
    /\ shown = [k \in Streams |-> <<>>]
    /\ pending = <<>>
    /\ received = [k \in Streams |-> <<>>]
    /\ arrived = 0

\* ------------------------------------------------- the scan-url handler
\* A page emits events from the start of navigation until browser.close()
\* has settled; a handler that failed before page.goto has no navigating page
PageAlive(s) ==
    /\ pc[s] \in {"goto", "screenshot", "close"}
    /\ failed[s] \cap {NewPageError, ViewportError} = {}

\* a finally block that ends the handler without closing the browser
FinallyWithoutClose(s) ==
    /\ pc' = [pc EXCEPT ![s] = "done"]
    /\ UNCHANGED closeCalls

\* finally { if (browser) await browser.close(); }
Finally(s) ==
    IF browser[s]
    THEN /\ closeCalls' = [closeCalls EXCEPT ![s] = @ + 1]
         /\ pc' = [pc EXCEPT ![s] = "close"]
    ELSE /\ pc' = [pc EXCEPT ![s] = "done"]
         /\ UNCHANGED closeCalls

\* a catch block that publishes the synthetic entry but no scan-complete
CatchFinallySilent(s, pre, m) ==
    /\ failed' = [failed EXCEPT ![s] = @ \cup {m}]
    /\ Emit(s, pre \o <<ConsoleLogMsg(SyntheticEntry(m))>>)
    /\ Finally(s)

\* catch (error) { emit console-log; emit scan-complete error } then finally;
\* pre: what the try block emitted in the same synchronous run before it threw
CatchFinally(s, pre, m) ==
    /\ failed' = [failed EXCEPT ![s] = @ \cup {m}]
    /\ Emit(s, pre \o <<ConsoleLogMsg(SyntheticEntry(m)), ErrorMsg(m)>>)
    /\ Finally(s)

\* connections that have sent a scan-url; connections are numbered in the
\* order of their first request
UsedConns == {conn[t] : t \in {t \in Sessions : pc[t] # "idle"}}

\* socket.on("scan-url", async (url) => { ... await puppeteer.launch(...)
ScanUrl(s, c, u) ==
    /\ pc[s] = "idle"
    /\ \A t \in Sessions : t < s => pc[t] # "idle"
    /\ c \in UsedConns \cup {Cardinality(UsedConns) + 1}
    /\ connected[c]
    /\ pc' = [pc EXCEPT ![s] = "launch"]
    /\ url' = [url EXCEPT ![s] = u]
    /\ conn' = [conn EXCEPT ![s] = c]
    /\ UNCHANGED failed
    /\ UNCHANGED <<browser, handlers, logs, networkLogs, screenshotBase64,
                   closeCalls, rejection, observed, fired>>
    /\ UNCHANGED <<ioVars, dbVars, res, list, clientVars>>

\* puppeteer.launch resolved: browser is assigned, browser.newPage() is awaited
LaunchOk(s) ==
    /\ pc[s] = "launch"
    /\ browser' = [browser EXCEPT ![s] = TRUE]
    /\ pc' = [pc EXCEPT ![s] = "newPage"]
    /\ UNCHANGED failed
    /\ UNCHANGED <<url, conn, handlers, logs, networkLogs, screenshotBase64,
                   closeCalls, rejection, observed, fired>>
    /\ UNCHANGED <<ioVars, dbVars, res, list, clientVars>>

\* a finally block that calls browser.close() without testing browser
LaunchFailClosing(s) ==
    /\ pc[s] = "launch"
    /\ failed' = [failed EXCEPT ![s] = @ \cup {LaunchError}]
    /\ Emit(s, <<ConsoleLogMsg(SyntheticEntry(LaunchError)), ErrorMsg(LaunchError)>>)
    /\ closeCalls' = [closeCalls EXCEPT ![s] = @ + 1]
    /\ pc' = [pc EXCEPT ![s] = "close"]
    /\ UNCHANGED <<url, conn, browser, handlers, logs, networkLogs,
                   screenshotBase64, rejection, observed, fired>>
    /\ UNCHANGED <<dbVars, res, list, clientVars>>

\* puppeteer.launch rejected: catch, and finally finds no browser
LaunchFail(s) ==
    /\ pc[s] = "launch"
    /\ CatchFinally(s, <<>>, LaunchError)
    /\ UNCHANGED <<url, conn, browser, handlers, logs, networkLogs,
                   screenshotBase64, rejection, observed, fired>>
    /\ UNCHANGED <<dbVars, res, list, clientVars>>

\* browser.newPage() resolved: page.setViewport() is awaited
NewPageOk(s) ==
    /\ pc[s] = "newPage"
    /\ pc' = [pc EXCEPT ![s] = "setViewport"]
    /\ UNCHANGED failed
    /\ UNCHANGED <<url, conn, browser, handlers, logs, networkLogs,
                   screenshotBase64, closeCalls, rejection, observed, fired>>
    /\ UNCHANGED <<ioVars, dbVars, res, list, clientVars>>

NewPageFail(s) ==
    /\ pc[s] = "newPage"
    /\ CatchFinally(s, <<>>, NewPageError)
    /\ UNCHANGED <<url, conn, browser, handlers, logs, networkLogs,
                   screenshotBase64, rejection, observed, fired>>
    /\ UNCHANGED <<dbVars, res, list, clientVars>>

\* page.setViewport() resolved: the four page.on calls run, page.goto is awaited
PageEvents == {"console", "pageerror", "response", "requestfailed"}

\* a handler that calls page.on("requestfailed") only after page.goto resolved
SetViewportOkLateSubscription(s) ==
    /\ pc[s] = "setViewport"
    /\ handlers' = [handlers EXCEPT ![s] = PageEvents \ {"requestfailed"}]
    /\ pc' = [pc EXCEPT ![s] = "goto"]
    /\ UNCHANGED failed
    /\ UNCHANGED <<url, conn, browser, logs, networkLogs, screenshotBase64,
                   closeCalls, rejection, observed, fired>>
    /\ UNCHANGED <<ioVars, dbVars, res, list, clientVars>>

SetViewportOk(s) ==
    /\ pc[s] = "setViewport"
    /\ handlers' = [handlers EXCEPT ![s] = PageEvents]
    /\ pc' = [pc EXCEPT ![s] = "goto"]
    /\ UNCHANGED failed
    /\ UNCHANGED <<url, conn, browser, logs, networkLogs, screenshotBase64,
                   closeCalls, rejection, observed, fired>>
    /\ UNCHANGED <<ioVars, dbVars, res, list, clientVars>>

SetViewportFail(s) ==
    /\ pc[s] = "setViewport"
    /\ CatchFinally(s, <<>>, ViewportError)
    /\ UNCHANGED <<url, conn, browser, handlers, logs, networkLogs,
                   screenshotBase64, rejection, observed, fired>>
    /\ UNCHANGED <<dbVars, res, list, clientVars>>

\* page.goto resolved (networkidle2 reached): page.screenshot is awaited
GotoOk(s) ==
    /\ pc[s] = "goto"
    /\ pc' = [pc EXCEPT ![s] = "screenshot"]
    /\ UNCHANGED failed
    /\ UNCHANGED <<url, conn, browser, handlers, logs, networkLogs,
                   screenshotBase64, closeCalls, rejection, observed, fired>>
    /\ UNCHANGED <<ioVars, dbVars, res, list, clientVars>>

\* a catch block that emits scan-complete before the synthetic entry
GotoFailNoticeFirst(s, m) ==
    /\ pc[s] = "goto"
    /\ failed' = [failed EXCEPT ![s] = @ \cup {m}]
    /\ Emit(s, <<ErrorMsg(m), ConsoleLogMsg(SyntheticEntry(m))>>)
    /\ Finally(s)
    /\ UNCHANGED <<url, conn, browser, handlers, logs, networkLogs,
                   screenshotBase64, rejection, observed, fired>>
    /\ UNCHANGED <<dbVars, res, list, clientVars>>

\* page.goto rejected: navigation error, or the 30000 ms timeout
GotoFail(s, m) ==
    /\ pc[s] = "goto"
    /\ CatchFinally(s, <<>>, m)
    /\ UNCHANGED <<url, conn, browser, handlers, logs, networkLogs,
                   screenshotBase64, rejection, observed, fired>>
    /\ UNCHANGED <<dbVars, res, list, clientVars>>

\* a row whose counts were taken before the last entry was pushed
ScanRowStaleCounts(s, shot) ==
    LET early == SubSeq(logs[s], 1, Len(logs[s]) - 1)
    IN  [id |-> Len(db) + 1,
         url |-> url[s],
         timestamp |-> Now,
         logs |-> Stringify(logs[s]),
         network |-> Stringify(networkLogs[s]),
         screenshot |-> shot,
         error_count |-> CountType(early, "error"),
         warn_count |-> CountType(early, "warn")]

\* the row INSERT INTO scans stores for session s
ScanRow(s, shot) ==
    [id |-> Len(db) + 1,
     url |-> url[s],
     timestamp |-> Now,
     logs |-> Stringify(logs[s]),
     network |-> Stringify(networkLogs[s]),
     screenshot |-> shot,
     error_count |-> CountType(logs[s], "error"),
     warn_count |-> CountType(logs[s], "warn")]

\* page.screenshot resolved: emit screenshot, count, insert, emit
\* scan-complete success; then finally.  No await in between.
ScreenshotOk(s) ==
    /\ pc[s] = "screenshot"
    /\ screenshotBase64' = [screenshotBase64 EXCEPT ![s] = Image]
    /\ LET row == ScanRow(s, Image)
       IN  /\ db' = Append(db, row)
           /\ owner' = Append(owner, [session |-> s, seen |-> Len(observed[s]),
                                     logsSeen |-> Len(logs[s]),
                                     networkSeen |-> Len(networkLogs[s])])
           /\ insertCalls' = [insertCalls EXCEPT ![s] = @ + 1]
           /\ Emit(s, <<ScreenshotMsg(Image), SuccessMsg(row.id)>>)
    /\ Finally(s)
    /\ UNCHANGED failed
    /\ UNCHANGED <<url, conn, browser, handlers, logs, networkLogs,
                   rejection, observed, fired, res, list, clientVars>>

\* an insert that throws after the success notice has gone out
InsertFailAfterNotice(s) ==
    /\ pc[s] = "screenshot"
    /\ screenshotBase64' = [screenshotBase64 EXCEPT ![s] = Image]
    /\ CatchFinally(s, <<ScreenshotMsg(Image), SuccessMsg(Len(db) + 1)>>, StorageError)
    /\ UNCHANGED <<url, conn, browser, handlers, logs, networkLogs,
                   rejection, observed, fired>>
    /\ insertCalls' = [insertCalls EXCEPT ![s] = @ + 1]
    /\ UNCHANGED <<db, owner, res, list, clientVars>>

\* a catch block that runs the insert again, which then succeeds
InsertFailRetried(s) ==
    /\ pc[s] = "screenshot"
    /\ screenshotBase64' = [screenshotBase64 EXCEPT ![s] = Image]
    /\ LET row == ScanRow(s, Image)
       IN  /\ db' = Append(db, row)
           /\ owner' = Append(owner, [session |-> s, seen |-> Len(observed[s]),
                                     logsSeen |-> Len(logs[s]),
                                     networkSeen |-> Len(networkLogs[s])])
           /\ insertCalls' = [insertCalls EXCEPT ![s] = @ + 2]
           /\ failed' = [failed EXCEPT ![s] = @ \cup {StorageError}]
           /\ Emit(s, <<ScreenshotMsg(Image), SuccessMsg(row.id)>>)
    /\ Finally(s)
    /\ UNCHANGED <<url, conn, browser, handlers, logs, networkLogs,
                   rejection, observed, fired, res, list, clientVars>>

\* page.screenshot resolved, but db.prepare / stmt.run throws: catch, finally
InsertFail(s) ==
    /\ pc[s] = "screenshot"
    /\ screenshotBase64' = [screenshotBase64 EXCEPT ![s] = Image]
    /\ CatchFinally(s, <<ScreenshotMsg(Image)>>, StorageError)
    /\ UNCHANGED <<url, conn, browser, handlers, logs, networkLogs,
                   rejection, observed, fired>>
    /\ insertCalls' = [insertCalls EXCEPT ![s] = @ + 1]
    /\ UNCHANGED <<db, owner, res, list, clientVars>>

\* page.screenshot rejected: catch, finally
ScreenshotFail(s) ==
    /\ pc[s] = "screenshot"
    /\ CatchFinally(s, <<>>, ScreenshotError)
    /\ UNCHANGED <<url, conn, browser, handlers, logs, networkLogs,
                   screenshotBase64, rejection, observed, fired>>
    /\ UNCHANGED <<dbVars, res, list, clientVars>>

\* browser.close() resolved: the handler's promise resolves
CloseOk(s) ==
    /\ pc[s] = "close"
    /\ pc' = [pc EXCEPT ![s] = "done"]
    /\ UNCHANGED failed
    /\ UNCHANGED <<url, conn, browser, handlers, logs, networkLogs,
                   screenshotBase64, closeCalls, rejection, observed, fired>>
    /\ UNCHANGED <<ioVars, dbVars, res, list, clientVars>>

\* browser.close() rejected inside finally: nothing catches it, the handler's
\* promise rejects with the close error
CloseFail(s) ==
    /\ pc[s] = "close"
    /\ pc' = [pc EXCEPT ![s] = "rejected"]
    /\ rejection' = [rejection EXCEPT ![s] = CloseError]
    /\ failed' = [failed EXCEPT ![s] = @ \cup {CloseError}]
    /\ UNCHANGED <<url, conn, browser, handlers, logs, networkLogs,
                   screenshotBase64, closeCalls, observed, fired>>
    /\ UNCHANGED <<ioVars, dbVars, res, list, clientVars>>

\* --------------------------------------------------- the capture callbacks
\* the page of session s emits an event
CanFire(s) ==
    /\ PageAlive(s)
    /\ fired < MaxEvents

\* an event of a kind page.on was not called for: no listener runs
Unheard(s, e) ==
    /\ observed' = [observed EXCEPT ![s] = Append(@, <<"lost", e>>)]
    /\ fired' = fired + 1
    /\ UNCHANGED failed
    /\ UNCHANGED <<pc, url, conn, browser, handlers, logs, networkLogs,
                   screenshotBase64, closeCalls, rejection>>
    /\ UNCHANGED <<ioVars, dbVars, res, list, clientVars>>

\* a callback that returns early when the client has disconnected
PushLogIfConnected(s, e) ==
    /\ IF connected[conn[s]]
       THEN /\ logs' = [logs EXCEPT ![s] = Append(@, e)]
            /\ Emit(s, <<ConsoleLogMsg(e)>>)
       ELSE UNCHANGED <<logs, ioVars>>
    /\ observed' = [observed EXCEPT ![s] = Append(@, <<"log", e>>)]
    /\ fired' = fired + 1
    /\ UNCHANGED failed
    /\ UNCHANGED <<pc, url, conn, browser, handlers, networkLogs,
                   screenshotBase64, closeCalls, rejection>>
    /\ UNCHANGED <<dbVars, res, list, clientVars>>

\* a callback that puts its entry at the front of the buffer (unshift)
PushLogFront(s, e) ==
    /\ logs' = [logs EXCEPT ![s] = <<e>> \o @]
    /\ Emit(s, <<ConsoleLogMsg(e)>>)
    /\ observed' = [observed EXCEPT ![s] = Append(@, <<"log", e>>)]
    /\ fired' = fired + 1
    /\ UNCHANGED failed
    /\ UNCHANGED <<pc, url, conn, browser, handlers, networkLogs,
                   screenshotBase64, closeCalls, rejection>>
    /\ UNCHANGED <<dbVars, res, list, clientVars>>

\* a callback that appends to one array all handlers share
PushLogShared(s, e) ==
    /\ logs' = [t \in Sessions |-> Append(logs[t], e)]
    /\ Emit(s, <<ConsoleLogMsg(e)>>)
    /\ observed' = [observed EXCEPT ![s] = Append(@, <<"log", e>>)]
    /\ fired' = fired + 1
    /\ UNCHANGED failed
    /\ UNCHANGED <<pc, url, conn, browser, handlers, networkLogs,
                   screenshotBase64, closeCalls, rejection>>
    /\ UNCHANGED <<dbVars, res, list, clientVars>>

\* logs.push(logEntry); socket.emit("console-log", logEntry)
PushLog(s, e) ==
    /\ logs' = [logs EXCEPT ![s] = Append(@, e)]
    /\ Emit(s, <<ConsoleLogMsg(e)>>)
    /\ observed' = [observed EXCEPT ![s] = Append(@, <<"log", e>>)]
    /\ fired' = fired + 1
    /\ UNCHANGED failed
    /\ UNCHANGED <<pc, url, conn, browser, handlers, networkLogs,
                   screenshotBase64, closeCalls, rejection>>
    /\ UNCHANGED <<dbVars, res, list, clientVars>>

\* if (!netEntry.url.startsWith("data:")) { networkLogs.push; socket.emit }
PushNet(s, e) ==
    /\ IF KeepsNetEntry(e)
       THEN /\ networkLogs' = [networkLogs EXCEPT ![s] = Append(@, e)]
            /\ Emit(s, <<NetworkLogMsg(e)>>)
       ELSE UNCHANGED <<networkLogs, ioVars>>
    /\ observed' = [observed EXCEPT ![s] = Append(@, <<"net", e>>)]
    /\ fired' = fired + 1
    /\ UNCHANGED failed
    /\ UNCHANGED <<pc, url, conn, browser, handlers, logs,
                   screenshotBase64, closeCalls, rejection>>
    /\ UNCHANGED <<dbVars, res, list, clientVars>>

\* page.on("console", ...)
OnConsole(s, type) ==
    /\ CanFire(s)
    /\ IF "console" \in handlers[s]
       THEN PushLog(s, ConsoleEntry(type))
       ELSE Unheard(s, ConsoleEntry(type))

\* page.on("pageerror", ...)
OnPageError(s) ==
    /\ CanFire(s)
    /\ IF "pageerror" \in handlers[s]
       THEN PushLog(s, PageErrorEntry)
       ELSE Unheard(s, PageErrorEntry)

\* page.on("response", ...)
OnResponse(s, u, status) ==
    /\ CanFire(s)
    /\ IF "response" \in handlers[s]
       THEN PushNet(s, ResponseEntry(u, status))
       ELSE Unheard(s, ResponseEntry(u, status))

\* page.on("requestfailed", ...)
OnRequestFailed(s, u, failure) ==
    /\ CanFire(s)
    /\ IF "requestfailed" \in handlers[s]
       THEN PushNet(s, RequestFailedEntry(u, failure))
       ELSE Unheard(s, RequestFailedEntry(u, failure))

\* A capture callback throws while it builds its entry, before the push
\* and the emit.  The callback runs inside the engine's event dispatch, not
\* inside the handler's try block: either the dispatch swallows the
\* exception, or it is an uncaught exception that ends the server process.
CallbackThrowsSwallowed(s, e) ==
    /\ CanFire(s)
    /\ observed' = [observed EXCEPT ![s] = Append(@, <<"thrown", e>>)]
    /\ fired' = fired + 1
    /\ UNCHANGED failed
    /\ UNCHANGED <<pc, url, conn, browser, handlers, logs, networkLogs,
                   screenshotBase64, closeCalls, rejection>>
    /\ UNCHANGED <<ioVars, dbVars, res, list, clientVars>>

CallbackThrowsUncaught(s, e) ==
    /\ CanFire(s)
    /\ observed' = [observed EXCEPT ![s] = Append(@, <<"thrown", e>>)]
    /\ fired' = fired + 1
    /\ pc' = [t \in Sessions |-> IF pc[t] \in {"done", "rejected"} THEN pc[t] ELSE "crashed"]
    /\ UNCHANGED failed
    /\ UNCHANGED <<url, conn, browser, handlers, logs, networkLogs,
                   screenshotBase64, closeCalls, rejection>>
    /\ UNCHANGED <<ioVars, dbVars, res, list, clientVars>>

\* ------------------------------------------------------------ connections
\* the client goes away; socket.on("disconnect") only logs
Disconnect(c) ==
    /\ c \in UsedConns
    /\ connected[c]
    /\ connected' = [connected EXCEPT ![c] = FALSE]
    /\ UNCHANGED <<sessionVars, emitted, delivered, dbVars, res, list, clientVars>>

\* -------------------------------------------------- GET /api/history/:id
\* a lookup without the test for a missing row: decoding the fields of no
\* row throws, and the catch answers 500
HistoryByIdUnguarded(id) ==
    IF \E i \in 1..Len(db) : db[i].id = id
    THEN LET row == db[CHOOSE i \in 1..Len(db) : db[i].id = id]
         IN  [status |-> 200,
              body |-> [id |-> row.id, url |-> row.url, timestamp |-> row.timestamp,
                        logs |-> Parse(row.logs), network |-> Parse(row.network),
                        screenshot |-> row.screenshot,
                        error_count |-> row.error_count, warn_count |-> row.warn_count]]
    ELSE [status |-> 500, body |-> [error |-> "Failed to fetch scan"]]

HistoryById(id) ==
    IF \E i \in 1..Len(db) : db[i].id = id
    THEN LET scan == db[CHOOSE i \in 1..Len(db) : db[i].id = id]
         IN  [status |-> 200,
              body |-> [scan EXCEPT !.logs = Parse(scan.logs),
                                    !.network = Parse(scan.network)]]
    ELSE [status |-> 404, body |-> [error |-> "Scan not found"]]

GetHistoryById(id) ==
    /\ res' = HistoryById(id)
    /\ UNCHANGED <<sessionVars, ioVars, dbVars, list, clientVars>>

\* the lookup throws: catch answers 500
GetHistoryByIdFail(id) ==
    /\ res' = [status |-> 500, body |-> [error |-> "Failed to fetch scan"]]
    /\ UNCHANGED <<sessionVars, ioVars, dbVars, list, clientVars>>

\* ------------------------------------------------------ GET /api/history
\* LIMIT 50
HistoryLimit == 50

\* SELECT id, url, timestamp, error_count, warn_count
Summary(row) ==
    [id |-> row.id, url |-> row.url, timestamp |-> row.timestamp,
     error_count |-> row.error_count, warn_count |-> row.warn_count]

\* ORDER BY timestamp DESC: the orders of the rows the store may answer
\* with; rows of equal timestamp come in an order the store chooses
HistoryOrders ==
    {p \in [1..Len(db) -> 1..Len(db)] :
        /\ \A i, j \in 1..Len(db) : i # j => p[i] # p[j]
        /\ \A i, j \in 1..Len(db) :
            i < j => db[p[i]].timestamp >= db[p[j]].timestamp}

\* the rows in order p, cut at the limit
History(p) ==
    [i \in 1..(IF Len(db) < HistoryLimit THEN Len(db) ELSE HistoryLimit) |->
        Summary(db[p[i]])]

\* app.get("/api/history"): res.json(scans).  submitted and finished record
\* how many scan-url requests had been received and had ended at that moment
GetHistory(p) ==
    /\ list' = [status |-> 200, body |-> History(p),
                submitted |-> Cardinality({s \in Sessions : pc[s] # "idle"}),
                finished |-> Cardinality({s \in Sessions : pc[s] \in {"done", "rejected"}})]
    /\ UNCHANGED <<sessionVars, ioVars, dbVars, res, clientVars>>

\* the query throws: catch answers 500
GetHistoryFail ==
    /\ list' = [status |-> 500, body |-> [error |-> "Failed to fetch history"]]
    /\ UNCHANGED <<sessionVars, ioVars, dbVars, res, clientVars>>

\* ids a client asks for: every id a row can have, and one no row has
Ids == 1..(NumSessions + 1)

\* ------------------------------------------------------------------- Next
Next ==
    \/ \E s \in Requests, c \in Conns, u \in ScanUrls : ScanUrl(s, c, u)
    \/ \E s \in Requests : LaunchOk(s)
    \/ \E s \in Requests : LaunchFail(s)
    \/ \E s \in Requests : NewPageOk(s)
    \/ \E s \in Requests : NewPageFail(s)
    \/ \E s \in Requests : SetViewportOk(s)
    \/ \E s \in Requests : SetViewportFail(s)
    \/ \E s \in Requests : GotoOk(s)
    \/ \E s \in Requests, m \in GotoErrors : GotoFail(s, m)
    \/ \E s \in Requests : ScreenshotOk(s)
    \/ \E s \in Requests : InsertFail(s)
    \/ \E s \in Requests : ScreenshotFail(s)
    \/ \E s \in Requests : CloseOk(s)
    \/ \E s \in Requests : CloseFail(s)
    \/ \E s \in Requests, t \in ConsoleTypes : OnConsole(s, t)
    \/ \E s \in Requests : OnPageError(s)
    \/ \E s \in Requests, u \in NetUrls, st \in Statuses : OnResponse(s, u, st)
    \/ \E s \in Requests, u \in NetUrls, f \in Failures : OnRequestFailed(s, u, f)
    \/ \E c \in Conns : Disconnect(c)

Spec == Init /\ [][Next]_vars

\* the sessions together with a client of the REST lookup
NextQuery ==
    \/ Next
    \/ \E id \in Ids : GetHistoryById(id)
    \/ \E id \in Ids : GetHistoryByIdFail(id)

QuerySpec == Init /\ [][NextQuery]_vars

\* the sessions together with a client of the history list
NextList ==
    \/ Next
    \/ \E p \in HistoryOrders : GetHistory(p)
    \/ GetHistoryFail

ListSpec == Init /\ [][NextList]_vars

\* Several requests in flight at once, from one connection or from several;
\* every awaited operation succeeds
NextConcurrent ==
    \/ \E s \in Sessions, c \in Conns, u \in ScanUrls : ScanUrl(s, c, u)
    \/ \E s \in Sessions : LaunchOk(s)
    \/ \E s \in Sessions : NewPageOk(s)
    \/ \E s \in Sessions : SetViewportOk(s)
    \/ \E s \in Sessions : GotoOk(s)
    \/ \E s \in Sessions : ScreenshotOk(s)
    \/ \E s \in Sessions : CloseOk(s)
    \/ \E s \in Sessions, t \in ConsoleTypes : OnConsole(s, t)
    \/ \E s \in Sessions, u \in NetUrls, st \in Statuses : OnResponse(s, u, st)

ConcurrentSpec == Init /\ [][NextConcurrent]_vars

\* the sessions with capture callbacks that may throw
NextThrow ==
    \/ Next
    \/ \E s \in Requests, t \in ConsoleTypes : CallbackThrowsSwallowed(s, ConsoleEntry(t))
    \/ \E s \in Requests, t \in ConsoleTypes : CallbackThrowsUncaught(s, ConsoleEntry(t))

ThrowSpec == Init /\ [][NextThrow]_vars

\* ------------------------------------------------------ the client (App)
\* useEffect(() => { const newSocket = io(); setSocket(newSocket); ... }, [])
Mount ==
    /\ ~socket
    /\ socket' = TRUE
    /\ UNCHANGED <<urlField, isScanning, online, outbox, awaiting, sent,
                   bufferRef, shown, pending, received, arrived>>
    /\ UNCHANGED serverVars

\* onChange={(e) => setUrl(e.target.value)}
SetUrl(u) ==
    /\ urlField # u
    /\ urlField' = u
    /\ UNCHANGED <<isScanning, socket, online, outbox, awaiting, sent,
                   bufferRef, shown, pending, received, arrived>>
    /\ UNCHANGED serverVars

\* socket?.emit("scan-url", url): nothing without a socket; socket.io keeps
\* the packet while the connection is down and sends it on reconnect
EmitScanUrl ==
    IF ~socket
    THEN UNCHANGED <<sent, awaiting, outbox>>
    ELSE /\ sent' = sent + 1
         /\ IF online
            THEN awaiting' = awaiting + 1 /\ UNCHANGED outbox
            ELSE outbox' = outbox + 1 /\ UNCHANGED awaiting

\* handleScan, and the render its state updates cause: a click or a key
\* press is a discrete event, React renders before the next event is handled
HandleScan ==
    /\ sent < MaxScans
    /\ IF urlField = EmptyUrl \/ ~StartsWith(urlField, HttpPrefix)
       THEN UNCHANGED <<isScanning, sent, awaiting, outbox, bufferRef, shown,
                        pending, received>>
       ELSE /\ shown' = [k \in Streams |-> <<>>]
            /\ bufferRef' = [k \in Streams |-> <<>>]
            /\ received' = [k \in Streams |-> <<>>]
            /\ isScanning' = TRUE
            /\ pending' = <<>>
            /\ EmitScanUrl
    /\ UNCHANGED <<urlField, socket, online, arrived>>
    /\ UNCHANGED serverVars

\* <button onClick={handleScan} disabled={isScanning || !url}>
ClickRunScan ==
    /\ ~(isScanning \/ urlField = EmptyUrl)
    /\ HandleScan

\* onKeyDown={(e) => e.key === "Enter" && handleScan()}
KeyNames == {"Enter", "a"}

KeyDown(key) ==
    /\ key = "Enter"
    /\ HandleScan

\* newSocket.on("console-log" / "network-log", ...): push to the buffer.
\* A message is its number in the order of receipt.
Receive(k) ==
    /\ socket /\ online
    /\ awaiting > 0
    /\ arrived < MaxMessages
    /\ arrived' = arrived + 1
    /\ bufferRef' = [bufferRef EXCEPT ![k] = Append(@, arrived + 1)]
    /\ received' = [received EXCEPT ![k] = Append(@, arrived + 1)]
    /\ UNCHANGED <<urlField, isScanning, socket, online, outbox, awaiting, sent,
                   shown, pending>>
    /\ UNCHANGED serverVars

\* newSocket.on("scan-complete", () => { setIsScanning(false); ... }): the
\* server answers a scan-url it received with one scan-complete
ReceiveScanComplete ==
    /\ socket /\ online
    /\ awaiting > 0
    /\ awaiting' = awaiting - 1
    /\ pending' = Append(pending, [hook |-> "isScanning", kind |-> "value", value |-> <<>>])
    /\ UNCHANGED <<urlField, isScanning, socket, online, outbox, sent,
                   bufferRef, shown, received, arrived>>
    /\ UNCHANGED serverVars

\* The update setLogs / setNetworkLogs queues for stream k.  React calls the
\* updater at once only when the component has no update queued and it
\* takes the fast path (eager); otherwise it calls it during the next
\* render, when it reads the buffer as it is then.
FlushUpdate(k, eager) ==
    IF bufferRef[k] = <<>>
    THEN <<>>
    ELSE IF eager
         THEN <<[hook |-> k, kind |-> "value", value |-> shown[k] \o bufferRef[k]]>>
         ELSE <<[hook |-> k, kind |-> "updater", value |-> <<>>]>>

\* setInterval(() => { if (buffer.length > 0) { setLogs((prev) => [...prev,
\* ...buffer.current]); buffer.current = []; } ... }, 100)
Flush(eager) ==
    /\ \E k \in Streams : bufferRef[k] # <<>>
    /\ eager => pending = <<>>
    /\ pending' = pending \o FlushUpdate("logs", eager)
                          \o FlushUpdate("network", eager /\ bufferRef["logs"] = <<>>)
    /\ bufferRef' = [k \in Streams |-> <<>>]
    /\ UNCHANGED <<urlField, isScanning, socket, online, outbox, awaiting, sent,
                   shown, received, arrived>>
    /\ UNCHANGED serverVars

\* the state of hook k after the queued updates q, starting from cur
RECURSIVE Reduce(_, _, _)
Reduce(k, q, cur) ==
    IF q = <<>>
    THEN cur
    ELSE LET u == Head(q)
         IN  Reduce(k, Tail(q),
                    IF u.hook # k THEN cur
                    ELSE IF u.kind = "updater" THEN cur \o bufferRef[k]
                    ELSE u.value)

\* React renders App with the queued updates
Render ==
    /\ pending # <<>>
    /\ shown' = [k \in Streams |-> Reduce(k, pending, shown[k])]
    /\ isScanning' = IF \E i \in 1..Len(pending) : pending[i].hook = "isScanning"
                     THEN FALSE ELSE isScanning
    /\ pending' = <<>>
    /\ UNCHANGED <<urlField, socket, online, outbox, awaiting, sent,
                   bufferRef, received, arrived>>
    /\ UNCHANGED serverVars

\* the connection drops: what the server emits for the scans in flight goes
\* to a closed socket and is dropped
Drop ==
    /\ socket /\ online
    /\ online' = FALSE
    /\ awaiting' = 0
    /\ UNCHANGED <<urlField, isScanning, socket, outbox, sent,
                   bufferRef, shown, pending, received, arrived>>
    /\ UNCHANGED serverVars

\* socket.io reconnects and sends the packets it held back
Reconnect ==
    /\ socket /\ ~online
    /\ online' = TRUE
    /\ awaiting' = outbox
    /\ outbox' = 0
    /\ UNCHANGED <<urlField, isScanning, socket, sent,
                   bufferRef, shown, pending, received, arrived>>
    /\ UNCHANGED serverVars

NextClient ==
    \/ Mount
    \/ \E u \in ClientUrls : SetUrl(u)
    \/ ClickRunScan
    \/ \E key \in KeyNames : KeyDown(key)
    \/ \E k \in Streams : Receive(k)
    \/ ReceiveScanComplete
    \/ \E eager \in BOOLEAN : Flush(eager)
    \/ Render
    \/ Drop
    \/ Reconnect

ClientSpec == Init /\ [][NextClient]_vars

\* what the browser and the server do without the user: effects, timers,
\* renders, reconnection and the server's answer all happen eventually
ClientProgress ==
    \/ Mount
    \/ ReceiveScanComplete
    \/ \E eager \in BOOLEAN : Flush(eager)
    \/ Render
    \/ Reconnect

FairClientSpec == ClientSpec /\ WF_vars(ClientProgress)

\* One step of session s's handler: an awaited operation returns or fails
HandlerStep(s) ==
    \/ LaunchOk(s) \/ LaunchFail(s)
    \/ NewPageOk(s) \/ NewPageFail(s)
    \/ SetViewportOk(s) \/ SetViewportFail(s)
    \/ GotoOk(s) \/ \E m \in GotoErrors : GotoFail(s, m)
    \/ ScreenshotOk(s) \/ InsertFail(s) \/ ScreenshotFail(s)
    \/ CloseOk(s) \/ CloseFail(s)

\* Every operation the handler awaits eventually returns or fails
FairSpec == Spec /\ \A s \in Requests : WF_vars(HandlerStep(s))

\* ================================================================ properties
Ended(s) == pc[s] \in {"done", "rejected"}

ScanCompletes(s) ==
    {i \in 1..Len(emitted[s]) : emitted[s][i].ev = "scan-complete"}

\* rows of the scans table that session s inserted
RowsOf(s) == {i \in 1..Len(db) : owner[i].session = s}

\* data of the messages of one kind a session published, in order
Published(s, ev) ==
    LET of == SelectSeq(emitted[s], LAMBDA m : m.ev = ev)
    IN  [i \in 1..Len(of) |-> of[i].data]

\* C1: every scan-url request the handler received is eventually answered by
\* a scan-complete message (success or error), whichever way the scan goes,
\* provided every awaited operation eventually returns or fails.
C1_ScanCompleteEventually ==
    \A s \in Sessions : (pc[s] # "idle") ~> (ScanCompletes(s) # {})

\* a scan whose insert failed after the screenshot has published its error notice
C1_Witness ==
    \E s \in Sessions :
        /\ StorageError \in failed[s]
        /\ \E i \in ScanCompletes(s) : emitted[s][i] = ErrorMsg(StorageError)

\* log entries the callbacks had pushed when the catch block ran: the
\* console-log messages published before the synthetic one
CapturedBeforeCatch(s, ev) ==
    LET synth == {i \in 1..Len(emitted[s]) :
                    /\ emitted[s][i].ev = "console-log"
                    /\ \E m \in failed[s] : emitted[s][i].data.text = SyntheticEntry(m).text}
        upTo == IF synth = {} THEN Len(emitted[s])
                ELSE (CHOOSE i \in synth : \A j \in synth : i <= j) - 1
        of == SelectSeq(SubSeq(emitted[s], 1, upTo), LAMBDA m : m.ev = ev)
    IN  [i \in 1..Len(of) |-> of[i].data]

\* C2: every scan attempt that ends, completed or failed by navigation error,
\* navigation timeout or screenshot failure, has inserted exactly one record,
\* and the record of a failed scan holds the entries captured before the failure.
C2_OneRecordPerAttempt ==
    \A s \in Sessions :
        (Ended(s) /\ failed[s] \subseteq (GotoErrors \cup {ScreenshotError, CloseError}))
            => /\ Cardinality(RowsOf(s)) = 1
               /\ \A i \in RowsOf(s) :
                    /\ Parse(db[i].logs) = CapturedBeforeCatch(s, "console-log")
                    /\ Parse(db[i].network) = CapturedBeforeCatch(s, "network-log")

\* C3: when page.goto fails by timeout the session persists a record whose logs
\* are the entries captured before the timeout followed by exactly one
\* synthetic error entry describing the timeout, and whose network entries are
\* those captured before the timeout.
C3_TimeoutRecord ==
    \A s \in Sessions :
        (Ended(s) /\ NavigationTimeout \in failed[s])
            => \E i \in RowsOf(s) :
                 /\ Parse(db[i].logs) =
                        Append(CapturedBeforeCatch(s, "console-log"),
                               SyntheticEntry(NavigationTimeout))
                 /\ Parse(db[i].network) = CapturedBeforeCatch(s, "network-log")

\* C4: a session that acquired a browser has invoked browser.close exactly once
\* by the time its handler ends, on every exit path; close is never invoked
\* twice, and never without a browser.
C4_CloseExactlyOnce ==
    \A s \in Sessions :
        /\ closeCalls[s] <= 1
        /\ (closeCalls[s] = 1) => browser[s]
        /\ (Ended(s) /\ browser[s]) => closeCalls[s] = 1

\* a session that failed after the browser was acquired has ended with its close
C4_Witness ==
    \E s \in Sessions :
        /\ pc[s] = "done"
        /\ browser[s]
        /\ failed[s] \cap (GotoErrors \cup {NewPageError, StorageError}) # {}
        /\ closeCalls[s] = 1

\* C5: an error of browser.close is absorbed inside the session; the handler's
\* promise never rejects.
C5_CloseErrorAbsorbed ==
    \A s \in Sessions : rejection[s] = "none"

\* C6: when navigation settled but page.screenshot failed, the scan is still
\* finalized: a record with the captured entries and no screenshot is
\* persisted and the client gets scan-complete success with the record's id.
C6_ScreenshotFailureNonFatal ==
    \A s \in Sessions :
        (Ended(s) /\ ScreenshotError \in failed[s])
            => \E i \in RowsOf(s) :
                 /\ db[i].screenshot = ""
                 /\ Parse(db[i].logs) = CapturedBeforeCatch(s, "console-log")
                 /\ Parse(db[i].network) = CapturedBeforeCatch(s, "network-log")
                 /\ \E j \in ScanCompletes(s) : emitted[s][j] = SuccessMsg(db[i].id)

\* C7: in every persisted record error_count is the number of error entries
\* of the record's own logs and warn_count the number of warn entries,
\* whatever callbacks fired before and after the insert.
C7_CountsMatchLogs ==
    \A i \in 1..Len(db) :
        /\ db[i].error_count = CountType(Parse(db[i].logs), "error")
        /\ db[i].warn_count = CountType(Parse(db[i].logs), "warn")

\* a record with one error entry, whose session pushed a warn entry after
\* the insert, while the browser was closing
C7_Witness ==
    \E i \in 1..Len(db) :
        /\ db[i].error_count = 1
        /\ db[i].warn_count = 0
        /\ Len(db[i].logs) = 1
        /\ CountType(logs[owner[i].session], "warn") = 1

\* C8: the logs and network collections GET /api/history/:id returns for a
\* record are the console-log and network-log messages its session
\* published during the scan, entries published after the insert included.
C8_HistoryEqualsPublished ==
    (res.status = 200) =>
        LET s == owner[res.body.id].session
        IN  Ended(s) =>
                /\ res.body.logs = Published(s, "console-log")
                /\ res.body.network = Published(s, "network-log")

\* entries of one stream among the events a page emitted
LogsOf(obs) ==
    LET of == SelectSeq(obs, LAMBDA o : o[1] = "log")
    IN  [i \in 1..Len(of) |-> of[i][2]]

NetOf(obs) ==
    LET of == SelectSeq(obs, LAMBDA o : o[1] = "net" /\ ~StartsWith(o[2].url, DataPrefix))
    IN  [i \in 1..Len(of) |-> of[i][2]]

\* what a session holds and persists is decided by the events its page
\* emitted and by its operations' failures, not by the connection
RecordIsOfObserved(s) ==
    /\ logs[s] = LogsOf(observed[s])
    /\ networkLogs[s] = NetOf(observed[s])
    /\ \A i \in RowsOf(s) :
        /\ Parse(db[i].logs) = LogsOf(SubSeq(observed[s], 1, owner[i].seen))
        /\ Parse(db[i].network) = NetOf(SubSeq(observed[s], 1, owner[i].seen))
    /\ (Ended(s) /\ failed[s] \subseteq {CloseError}) => Cardinality(RowsOf(s)) = 1

\* C9: after the client disconnected nothing more is delivered to it, the
\* session still runs to the end of its handler, and what it holds and
\* persists is what the page's events and the operations' outcomes decide.
C9_DisconnectDoesNotAbort ==
    /\ [][\A s \in Sessions :
            ~connected[conn[s]] => delivered'[s] = delivered[s]]_vars
    /\ [](\A s \in Sessions : RecordIsOfObserved(s))
    /\ \A s \in Sessions :
        (pc[s] # "idle" /\ ~connected[conn[s]]) ~> Ended(s)

\* a client that left before the first event, whose scan was still persisted
\* with the entries captured after it left
C9_Witness ==
    \E s \in Sessions :
        /\ ~connected[conn[s]]
        /\ pc[s] = "done"
        /\ delivered[s] = <<>>
        /\ \E i \in RowsOf(s) : Len(db[i].logs) = 1 /\ Len(db[i].network) = 1

\* C10: no entry with a data: url is in a network buffer, in a published
\* network-log message or in a persisted record.
HasDataUrl(entries) ==
    \E i \in 1..Len(entries) : StartsWith(entries[i].url, DataPrefix)

C10_NoDataUrlKept ==
    /\ \A s \in Sessions :
        /\ ~HasDataUrl(networkLogs[s])
        /\ ~HasDataUrl(Published(s, "network-log"))
    /\ \A i \in 1..Len(db) : ~HasDataUrl(Parse(db[i].network))

\* a response and a failed request with data: urls were seen before the insert
C10_Witness ==
    \E s \in Sessions :
        /\ RowsOf(s) # {}
        /\ \E i, j \in 1..Len(observed[s]) :
            /\ observed[s][i][1] = "net" /\ observed[s][j][1] = "net"
            /\ observed[s][i][2].url = DataUrl /\ "errorText" \in DOMAIN observed[s][i][2]
            /\ observed[s][j][2].url = DataUrl /\ "errorText" \notin DOMAIN observed[s][j][2]
        /\ \A i \in RowsOf(s) : owner[i].seen = 2

\* ---------------------------------------------------------------- C11
\* every network entry a session holds, has published or has persisted
AllNetEntries ==
    UNION {{networkLogs[s][i] : i \in 1..Len(networkLogs[s])} : s \in Sessions}
    \cup UNION {{Published(s, "network-log")[i] :
                    i \in 1..Len(Published(s, "network-log"))} : s \in Sessions}
    \cup UNION {{Parse(db[r].network)[i] : i \in 1..Len(db[r].network)} :
                    r \in 1..Len(db)}

\* C11: every network entry that is captured, published or persisted has
\* status 0 if and only if it has an errorText field.
C11_StatusZeroIffErrorText ==
    \A e \in AllNetEntries : (e.status = 0) <=> ("errorText" \in DOMAIN e)

\* ---------------------------------------------------------------- C12
\* C12: once N scans have been submitted and have finished, GET /api/history
\* returns exactly min(N, 50) summaries, ordered by timestamp descending.
C12_HistoryHasMinN50 ==
    (list.status = 200 /\ list.submitted = list.finished) =>
        /\ Len(list.body) =
              (IF list.finished < HistoryLimit THEN list.finished ELSE HistoryLimit)
        /\ \A i, j \in 1..Len(list.body) :
              i < j => list.body[i].timestamp >= list.body[j].timestamp

\* ---------------------------------------------------------------- C13
\* the row with identifier id, with logs and network as the session held
\* them when it inserted the row
FullRecord(i) ==
    LET s == owner[i].session
    IN  [id |-> db[i].id, url |-> url[s], timestamp |-> db[i].timestamp,
         logs |-> SubSeq(logs[s], 1, owner[i].logsSeen),
         network |-> SubSeq(networkLogs[s], 1, owner[i].networkSeen),
         screenshot |-> db[i].screenshot,
         error_count |-> db[i].error_count, warn_count |-> db[i].warn_count]

\* C13: GET /api/history/:id answers 404 for an id no row has, the full
\* record with decoded logs and network for an id a row has, and 500, not
\* 404, when the lookup or the decoding throws.
C13_LookupOutcome ==
    [][\A id \in Ids :
        /\ GetHistoryById(id) =>
            IF \E i \in 1..Len(db) : db[i].id = id
            THEN /\ res'.status = 200
                 /\ \E i \in 1..Len(db) : db[i].id = id /\ res'.body = FullRecord(i)
            ELSE res'.status = 404
        /\ GetHistoryByIdFail(id) => res'.status = 500]_vars

\* the lookup returned a record with one log entry and one network entry
C13_Witness ==
    /\ res.status = 200
    /\ Len(res.body.logs) = 1
    /\ Len(res.body.network) = 1

\* ---------------------------------------------------------------- C14
\* C14: a request publishes at most one scan-complete message, never a
\* success and an error and never one of them twice, on every exit path,
\* the storage failure after the screenshot message included.
C14_AtMostOneScanComplete ==
    \A s \in Sessions : Cardinality(ScanCompletes(s)) <= 1

\* the insert threw after the screenshot message went out, and the request
\* has published its one scan-complete
C14_Witness ==
    \E s \in Sessions :
        /\ StorageError \in failed[s]
        /\ Len(Published(s, "screenshot")) = 1
        /\ Cardinality(ScanCompletes(s)) = 1

\* ---------------------------------------------------------------- C15
\* C15: scan-complete is the last message of a session: after it the
\* session publishes no console-log and no network-log message, although
\* the callbacks stay subscribed while browser.close() is awaited.
C15_ScanCompleteIsLast ==
    \A s \in Sessions :
        \A i \in ScanCompletes(s) :
            \A j \in (i + 1)..Len(emitted[s]) :
                emitted[s][j].ev \notin {"console-log", "network-log"}

\* ---------------------------------------------------------------- C16
\* the entries of a sequence
Range(seq) == {seq[i] : i \in 1..Len(seq)}

\* C16: all four subscriptions are installed before page.goto is issued, so
\* every event the page emits from the start of navigation on reaches its
\* callback, and what the callback keeps is captured and published.
C16_SubscribedBeforeGoto ==
    \A s \in Sessions :
        /\ PageAlive(s) => handlers[s] = PageEvents
        /\ \A k \in 1..Len(observed[s]) :
            LET kind == observed[s][k][1]
                e == observed[s][k][2]
            IN  /\ kind # "lost"
                /\ kind = "log" =>
                    e \in Range(logs[s]) \cap Range(Published(s, "console-log"))
                /\ (kind = "net" /\ KeepsNetEntry(e)) =>
                    e \in Range(networkLogs[s]) \cap Range(Published(s, "network-log"))

\* a console message and a failed request that arrived while page.goto
\* was still pending, both captured
C16_Witness ==
    \E s \in Sessions :
        /\ pc[s] = "goto"
        /\ Len(logs[s]) = 1
        /\ Len(networkLogs[s]) = 1
        /\ "errorText" \in DOMAIN networkLogs[s][1]

\* ---------------------------------------------------------------- C17
\* the console-log messages the callbacks published: all but the entry the
\* catch block makes up
CallbackLogs(s) ==
    SelectSeq(Published(s, "console-log"),
              LAMBDA d : d.text[1] # "Failed to load page: ")

\* C17: within a session the log entries are appended and published in the
\* order the console and pageerror callbacks fired, the network entries in
\* the order the response and requestfailed callbacks fired; a persisted
\* record keeps that order, and no entry of one stream is in the other.
C17_OrderPreserved ==
    \A s \in Sessions :
        /\ logs[s] = LogsOf(observed[s])
        /\ CallbackLogs(s) = LogsOf(observed[s])
        /\ networkLogs[s] = NetOf(observed[s])
        /\ Published(s, "network-log") = NetOf(observed[s])
        /\ \A i \in RowsOf(s) :
            /\ Parse(db[i].logs) = SubSeq(LogsOf(observed[s]), 1, owner[i].logsSeen)
            /\ Parse(db[i].network) = SubSeq(NetOf(observed[s]), 1, owner[i].networkSeen)
            /\ \A e \in Range(Parse(db[i].logs)) : "url" \notin DOMAIN e
            /\ \A e \in Range(Parse(db[i].network)) : "text" \notin DOMAIN e
        /\ \A e \in Range(logs[s]) \cup Range(CallbackLogs(s)) : "url" \notin DOMAIN e
        /\ \A e \in Range(networkLogs[s]) \cup Range(Published(s, "network-log")) :
            "text" \notin DOMAIN e

\* a console warning and then a page error, persisted in that order
C17_Witness ==
    \E s \in Sessions : \E i \in RowsOf(s) :
        /\ Len(Parse(db[i].logs)) = 2
        /\ Parse(db[i].logs)[1].type = "warn"
        /\ "args" \notin DOMAIN Parse(db[i].logs)[2]
        /\ Parse(db[i].logs)[1].timestamp < Parse(db[i].logs)[2].timestamp

\* ---------------------------------------------------------------- C20
\* C20: when the insert of the record fails, the client is sent a
\* scan-complete with status error that carries the message, the insert is
\* not run a second time, no success notice is published, and
\* browser.close() is still called.
C20_InsertFailureSurfaced ==
    \A s \in Sessions :
        StorageError \in failed[s] =>
            /\ \E i \in ScanCompletes(s) : emitted[s][i] = ErrorMsg(StorageError)
            /\ \A i \in ScanCompletes(s) : emitted[s][i].data.status # "success"
            /\ insertCalls[s] = 1
            /\ RowsOf(s) = {}
            /\ closeCalls[s] = 1

\* the insert threw, the error notice is out and the browser has closed
C20_Witness ==
    \E s \in Sessions :
        /\ StorageError \in failed[s]
        /\ insertCalls[s] = 1
        /\ pc[s] = "done"
        /\ ErrorMsg(StorageError) \in Range(emitted[s])

\* ---------------------------------------------------------------- C18
\* entries the callbacks of session s built from the events of its own page
OwnEntries(s) == {observed[s][k][2] : k \in 1..Len(observed[s])}

\* C18: sessions that run at the same time append only to their own
\* buffers: what a session holds, and the record it persists, has only
\* entries captured from its own page, however the sessions' callbacks and
\* completions interleave.
C18_SessionsIsolated ==
    /\ \A s \in Sessions :
        Range(logs[s]) \cup Range(networkLogs[s]) \subseteq OwnEntries(s)
    /\ \A i \in 1..Len(db) :
        /\ Range(Parse(db[i].logs)) \cup Range(Parse(db[i].network))
              \subseteq OwnEntries(owner[i].session)
        /\ Len(Parse(db[i].logs)) = owner[i].logsSeen
        /\ Len(Parse(db[i].network)) = owner[i].networkSeen
    /\ \A s, t \in Sessions : s # t => OwnEntries(s) \cap OwnEntries(t) = {}

\* two sessions on one connection, each with one console entry; the entry
\* captured later was persisted first
C18_Witness ==
    /\ Len(db) = 2
    /\ conn[1] = conn[2]
    /\ owner[1].session # owner[2].session
    /\ Len(Parse(db[1].logs)) = 1
    /\ Len(Parse(db[2].logs)) = 1
    /\ Parse(db[1].logs)[1].timestamp > Parse(db[2].logs)[1].timestamp

\* ---------------------------------------------------------------- C19
\* C19: a success notice is published only once the session's record is
\* in the table, and the identifier it carries is the one the table gave
\* that session's own record, also when other sessions insert at the
\* same time.
C19_NoticeCarriesOwnId ==
    \A s \in Sessions :
        \A i \in ScanCompletes(s) :
            emitted[s][i].data.status = "success" =>
                /\ Cardinality(RowsOf(s)) = 1
                /\ \A r \in RowsOf(s) : db[r].id = emitted[s][i].data.scanId

\* the request submitted second inserted first; both notices are out
C19_Witness ==
    /\ Len(db) = 2
    /\ owner[1].session = 2
    /\ owner[2].session = 1
    /\ \A s \in Sessions : SuccessMsg(CHOOSE r \in RowsOf(s) : TRUE) \in Range(emitted[s])

\* ---------------------------------------------------------------- C21
\* C21: when puppeteer.launch fails the session ends as failed with no
\* call of browser.close(), no capture callback is ever installed, no
\* record is persisted, and a scan-complete with status error that carries
\* the launch error's message is published.
C21_LaunchFailure ==
    \A s \in Sessions :
        LaunchError \in failed[s] =>
            /\ pc[s] = "done"
            /\ closeCalls[s] = 0
            /\ handlers[s] = {}
            /\ observed[s] = <<>>
            /\ insertCalls[s] = 0
            /\ RowsOf(s) = {}
            /\ \A i \in ScanCompletes(s) : emitted[s][i] = ErrorMsg(LaunchError)
            /\ Cardinality(ScanCompletes(s)) = 1

\* the launch failed and the error notice reached the client
C21_Witness ==
    \E s \in Sessions :
        /\ LaunchError \in failed[s]
        /\ ErrorMsg(LaunchError) \in Range(delivered[s])

\* ---------------------------------------------------------------- C22
\* positions of the entry the catch block makes up among a session's messages
Synthetics(s) ==
    {k \in 1..Len(emitted[s]) :
        /\ emitted[s][k].ev = "console-log"
        /\ emitted[s][k].data.text[1] = "Failed to load page: "}

\* C22: when page.goto fails, exactly one synthetic console-log entry of
\* type error with the engine's message is published, after every entry
\* captured before the failure and right before the scan-complete with
\* status error, and the session publishes no screenshot message.
C22_GotoFailureReported ==
    \A s \in Sessions : \A m \in GotoErrors :
        m \in failed[s] =>
            /\ Cardinality(Synthetics(s)) = 1
            /\ Published(s, "screenshot") = <<>>
            /\ \A k \in Synthetics(s) :
                /\ emitted[s][k].data.type = "error"
                /\ emitted[s][k].data.text[2] = m
                /\ k < Len(emitted[s])
                /\ emitted[s][k + 1] = ErrorMsg(m)
                /\ \A j \in 1..Len(emitted[s]) :
                    emitted[s][j].ev \in {"console-log", "network-log"} =>
                        ((emitted[s][j].data.timestamp < emitted[s][k].data.timestamp)
                            => j < k)

\* navigation timed out after a console entry and a response were captured
C22_Witness ==
    \E s \in Sessions :
        /\ NavigationTimeout \in failed[s]
        /\ Len(emitted[s]) = 4
        /\ Synthetics(s) = {3}
        /\ emitted[s][2].ev = "network-log"

\* ---------------------------------------------------------------- C23
\* C23: an exception raised inside a capture callback is caught at the
\* session boundary and converted into a synthetic error log entry, and
\* the session is not aborted by it.
C23_CallbackExceptionContained ==
    \A s \in Sessions :
        (\E k \in 1..Len(observed[s]) : observed[s][k][1] = "thrown") =>
            /\ Synthetics(s) # {}
            /\ pc[s] # "crashed"

\* ---------------------------------------------------------------- C24
\* C24: while isScanning is true the client emits no further scan-url,
\* whether the user clicks Run Scan or presses Enter in the URL field.
C24_NoScanWhileScanning ==
    [][isScanning => sent' = sent]_vars

\* ---------------------------------------------------------------- C25
\* C25: whenever handleScan has set isScanning to true, isScanning
\* eventually returns to false, also when the socket was still null at
\* submit time or the connection dropped during the scan.
C25_ScanningEnds ==
    isScanning ~> ~isScanning

\* ---------------------------------------------------------------- C26
\* C26: every console-log and network-log message received since the last
\* reset is moved by the flush into the displayed list exactly once and in
\* the order of receipt: once the buffers are flushed and rendered, the
\* displayed lists are the messages received.
C26_FlushExactlyOnce ==
    (\A k \in Streams : bufferRef[k] = <<>>) /\ pending = <<>> =>
        \A k \in Streams : shown[k] = received[k]

====
